---- MODULE Spec2Model ----
(***************************************************************************)
(* Piano visualizer: the MIDI timeline builder (midi_parser.py), the       *)
(* playback clock and note-trigger resolver (main.py), the transport       *)
(* callbacks of the control panel (ui_components.py) and the part of the   *)
(* sound engine (sound_engine.py) that the playback path drives.           *)
(*                                                                         *)
(* Times are milliseconds.  The speed multiplier is held in units of        *)
(* 1/1300, in which the steps of the arrow keys (0.1) and of the speed     *)
(* slider (2.9/130 per pixel) are whole numbers.  While a piece plays the  *)
(* wall clock advances in multiples of 20 ms and the multiplier is 1.0 or  *)
(* 2.0, so that every product and quotient the code computes on these      *)
(* values is an exact integer here (the quotient current_time / speed      *)
(* loses one factor of two at most once per two speed changes, and speed   *)
(* changes are capped).                                                    *)
(***************************************************************************)
EXTENDS Integers, Sequences, FiniteSets, TLC

\* What the multiplier 1.0 is held as: the speed slider travels over 130
\* pixels from 0.1 to 3.0, so one pixel is 29/1300 and 0.1 is 130/1300.
SpeedUnit == 1300

\* ------------------------------------------------------------------ bounds
\* No transport command restarts the clock once the wall clock reached this.
MaxNow == 100
\* Cap on the number of speed changes in one behaviour.
MaxSpeedChanges == 2
\* Wall-clock duration of one loop iteration: a 50 FPS frame, and a hitch.
Deltas == {20, 80}
\* Values the speed slider / arrow keys may set while a piece plays: 1.0, 2.0.
Speeds == {SpeedUnit, 2 * SpeedUnit}
\* Duration of one loop iteration while the long piece plays: a frame, and
\* a stall of half a second.
LongDeltas == {20, 500}
\* Longest track of the generated one-track files on one key.
MaxDeepLen == 5
\* Largest tick count converted on its own, in steps of 160 ticks.
MaxConvSteps == 6
\* Longest track of the generated two-track files.
MaxDuoLen == 2
\* Longest track of the generated one-track files on six keys.
MaxWideLen == 2

\* ------------------------------------------------------- program constants
DEFAULT_TEMPO == 500000
\* self.speed = 1.0
DEFAULT_SPEED == SpeedUnit
time_window == 50
MIDDLE_C == 60
look_ahead_time == 3000
look_behind_time == 1000

\* The values self.tempo takes: the default and the set_tempo values of the files.
Tempos == {DEFAULT_TEMPO, 250000}

\* The tick counts handed to _ticks_to_ms on its own: thirds of a beat of
\* 480 ticks, whole beats and more of a beat of 96 ticks.
ConvTicks == { 160 * k : k \in 0..MaxConvSteps }
\* The ticks_per_beat of the files whose ticks are converted on their own.
ConvTpbs == {480, 96}

\* ---------------------------------------------------------------- MIDI files
NoteOn(t, n, c, v) == [type |-> "note_on", time |-> t, note |-> n, channel |-> c, velocity |-> v]
NoteOff(t, n, c) == [type |-> "note_off", time |-> t, note |-> n, channel |-> c, velocity |-> 0]
SetTempo(t, us) == [type |-> "set_tempo", time |-> t, tempo |-> us]
TrackName(t) == [type |-> "track_name", time |-> t]

\* One track, default tempo: pitch 60 at ticks 0-48, pitch 64 at ticks 96-192.
FileA ==
  [ok |-> TRUE, ticks_per_beat |-> 480,
   tracks |-> << << NoteOn(0, 60, 0, 100), NoteOff(48, 60, 0),
                    NoteOn(48, 64, 0, 90), NoteOff(96, 64, 0) >> >>]

\* Two tracks; the first one sets the tempo to 250000 us/beat.
FileB ==
  [ok |-> TRUE, ticks_per_beat |-> 480,
   tracks |-> << << SetTempo(0, 250000), NoteOn(0, 62, 2, 80), NoteOff(96, 62, 2) >>,
                 << NoteOn(48, 40, 1, 70), NoteOn(48, 40, 1, 0) >> >>]

\* A valid file without a single closed note.
FileE ==
  [ok |-> TRUE, ticks_per_beat |-> 480,
   tracks |-> << << TrackName(0), NoteOn(0, 60, 0, 100) >> >>]

\* A path that does not exist, or that the decoder rejects.
FileBad == [ok |-> FALSE, ticks_per_beat |-> 0, tracks |-> << >>]

\* MIDIParser.midi_file before the first successful load_file (None).
NoFile == [ok |-> FALSE, ticks_per_beat |-> 480, tracks |-> << >>]

Files == {FileA, FileB, FileE, FileBad}

\* create_test_midi_file: pitch 60 at ticks 0-480, pitch 64 at ticks 480-960.
TestFile ==
  [ok |-> TRUE, ticks_per_beat |-> 480,
   tracks |-> << << NoteOn(0, 60, 0, 100), NoteOff(480, 60, 0),
                    NoteOn(0, 64, 0, 100), NoteOff(480, 64, 0) >> >>]

\* A piece of 4 s: pitch 60 at ticks 0-480 (0-500 ms), pitch 64 at ticks
\* 3360-3840 (3500-4000 ms).
LongFile ==
  [ok |-> TRUE, ticks_per_beat |-> 480,
   tracks |-> << << NoteOn(0, 60, 0, 100), NoteOff(480, 60, 0),
                    NoteOn(2880, 64, 0, 100), NoteOff(480, 64, 0) >> >>]

\* ------------------------------------------------- generated MIDI files
SeqsUpTo(S, n) == UNION { [1..k -> S] : k \in 0..n }

\* One track on the key (60, channel 0): note-ons with two velocities, both
\* kinds of closing event, a tempo change.
DeepMsgs ==
  { NoteOn(0, 60, 0, 100), NoteOn(48, 60, 0, 80), NoteOff(48, 60, 0),
    NoteOn(48, 60, 0, 0), SetTempo(0, 250000) }
DeepFiles ==
  { [ok |-> TRUE, ticks_per_beat |-> 480, tracks |-> << t >>] :
      t \in SeqsUpTo(DeepMsgs, MaxDeepLen) }

\* Two tracks on the keys (60, channel 0) and (59, channel 2).
DuoMsgs ==
  { NoteOn(0, 60, 0, 100), NoteOff(48, 60, 0), SetTempo(0, 250000),
    NoteOn(0, 59, 2, 90), NoteOff(48, 59, 2) }
DuoFiles ==
  { [ok |-> TRUE, ticks_per_beat |-> 480, tracks |-> << t1, t2 >>] :
      t1 \in SeqsUpTo(DuoMsgs, MaxDuoLen), t2 \in SeqsUpTo(DuoMsgs, MaxDuoLen) }

\* One track on channels 0, 1 and 2 with a pitch on each side of middle C.
WideKeys == {59, 60} \X {0, 1, 2}
WideMsgs ==
  { NoteOn(0, k[1], k[2], 100) : k \in WideKeys } \cup
  { NoteOff(48, k[1], k[2]) : k \in WideKeys }
WideFiles ==
  { [ok |-> TRUE, ticks_per_beat |-> 480, tracks |-> << t >>] :
      t \in SeqsUpTo(WideMsgs, MaxWideLen) }

\* Track 0: two keys struck together at tick 48, the one struck second is
\* released first.  Track 1: a note at ticks 0-48.
ChordFile ==
  [ok |-> TRUE, ticks_per_beat |-> 480,
   tracks |-> << << NoteOn(48, 60, 0, 100), NoteOn(0, 59, 2, 90),
                    NoteOff(48, 59, 2), NoteOff(0, 60, 0) >>,
                 << NoteOn(0, 64, 1, 70), NoteOff(48, 64, 1) >> >>]

\* Two tracks that hold the same pitch on different channels at overlapping
\* times: pitch 60 at ticks 0-96 (0-100 ms) on channel 0 and at ticks 48-192
\* (50-200 ms) on channel 1.
OverlapFile ==
  [ok |-> TRUE, ticks_per_beat |-> 480,
   tracks |-> << << NoteOn(0, 60, 0, 100), NoteOff(96, 60, 0) >>,
                 << NoteOn(48, 60, 1, 90), NoteOff(144, 60, 1) >> >>]

\* The files given to the builder.
GenFiles ==
  DeepFiles \cup DuoFiles \cup WideFiles \cup {TestFile, ChordFile, FileA, FileB, FileE}

\* The files after which the same parser builds a second file.
SeedFiles == {FileB}

\* ------------------------------------------------------------ MIDIParser
\* _ticks_to_ms with the quotient ticks / ticks_per_beat taken as a whole
\* number of beats.
TicksToMsWholeBeats(ticks, ticks_per_beat, tempo) ==
  (ticks \div ticks_per_beat) * (tempo \div 1000)

\* _ticks_to_ms applied to the position of the tick inside its beat.
TicksToMsWithinBeat(ticks, ticks_per_beat, tempo) ==
  ((ticks % ticks_per_beat) * (tempo \div 1000)) \div ticks_per_beat

\* _ticks_to_ms: (ticks / ticks_per_beat) * (tempo / 1000)
TicksToMs(ticks, ticks_per_beat, tempo) ==
  (ticks * (tempo \div 1000)) \div ticks_per_beat

channel_hand_map(channel) ==
  IF channel = 0 THEN "right" ELSE IF channel = 1 THEN "left" ELSE "unknown"

\* The hand taken from the pitch alone, whatever the channel.
HandOfPitchOnly(channel, note) ==
  IF note < MIDDLE_C THEN "left" ELSE "right"

\* hand = channel_hand_map.get(msg.channel, 'unknown'), then the pitch rule
\* when it is 'unknown'.
HandOf(channel, note) ==
  LET hand == channel_hand_map(channel)
  IN  IF hand = "unknown" THEN (IF note < MIDDLE_C THEN "left" ELSE "right") ELSE hand

Max(a, b) == IF a > b THEN a ELSE b

\* note_id = (msg.note, msg.channel)
NoteId(msg) == << msg.note, msg.channel >>

\* track_active_notes[note_id] = (cumulative_ticks, msg.velocity), except
\* that a key already pending keeps its earlier entry.
StoreActiveKeepFirst(active, note_id, ticks, velocity) ==
  IF note_id \in DOMAIN active THEN active
  ELSE [k \in DOMAIN active \cup {note_id} |->
          IF k = note_id THEN << ticks, velocity >> ELSE active[k]]

\* track_active_notes[note_id] = (cumulative_ticks, msg.velocity)
StoreActive(active, note_id, ticks, velocity) ==
  [k \in DOMAIN active \cup {note_id} |->
     IF k = note_id THEN << ticks, velocity >> ELSE active[k]]

\* del track_active_notes[note_id]
DelActive(active, note_id) == [k \in DOMAIN active \ {note_id} |-> active[k]]

\* The closing test that knows note_off only.
IsCloseOffOnly(msg) == msg.type = "note_off"

\* msg.type == 'note_off' or (msg.type == 'note_on' and msg.velocity == 0)
IsClose(msg) ==
  msg.type = "note_off" \/ (msg.type = "note_on" /\ msg.velocity = 0)

\* Note(...) with the two times exchanged.
MakeNoteSwapped(msg, velocity, start_time_ms, end_time_ms, track_idx) ==
  [note |-> msg.note,
   velocity |-> velocity,
   start_time |-> end_time_ms,
   end_time |-> start_time_ms,
   channel |-> msg.channel,
   hand |-> HandOf(msg.channel, msg.note),
   track |-> track_idx]

\* Note(note, velocity, start_time, end_time, channel, hand, track)
MakeNote(msg, velocity, start_time_ms, end_time_ms, track_idx) ==
  [note |-> msg.note,
   velocity |-> velocity,
   start_time |-> start_time_ms,
   end_time |-> end_time_ms,
   channel |-> msg.channel,
   hand |-> HandOf(msg.channel, msg.note),
   track |-> track_idx]

\* The start tick converted at the default tempo whatever tempo is in force.
StartTimeMsAtDefault(start_tick, tpb, tempo) ==
  TicksToMs(start_tick, tpb, DEFAULT_TEMPO)

\* start_time = self._ticks_to_ms(start_tick): the stored start tick is
\* converted when the note is closed, at the tempo the parser holds then.
StartTimeMs(start_tick, tpb, tempo) == TicksToMs(start_tick, tpb, tempo)

\* One iteration of the message loop of parse().  st is the running state:
\* notes, tempo, total_time (parser fields), cumulative_ticks and
\* track_active_notes (locals of the track loop).
ProcessMsg(msg, track_idx, tpb, st) ==
  LET ticks == st.cumulative_ticks + msg.time
      st1 == [st EXCEPT !.cumulative_ticks = ticks]
  IN  IF msg.type = "set_tempo"
      THEN [st1 EXCEPT !.tempo = msg.tempo]
      ELSE IF msg.type = "note_on" /\ msg.velocity > 0
      THEN [st1 EXCEPT !.active = StoreActive(st.active, NoteId(msg), ticks, msg.velocity)]
      ELSE IF IsClose(msg)
      THEN LET note_id == NoteId(msg)
           IN  IF note_id \in DOMAIN st.active
               THEN LET start_time_ms == StartTimeMs(st.active[note_id][1], tpb, st.tempo)
                        end_time_ms == TicksToMs(ticks, tpb, st.tempo)
                        n == MakeNote(msg, st.active[note_id][2],
                                      start_time_ms, end_time_ms, track_idx)
                    IN  [st1 EXCEPT
                           !.notes = Append(st.notes, n),
                           !.total_time = Max(st.total_time, end_time_ms),
                           !.active = DelActive(st.active, note_id)]
               ELSE st1
      ELSE st1

RECURSIVE ParseTrack(_, _, _, _)
ParseTrack(msgs, track_idx, tpb, st) ==
  IF msgs = << >> THEN st
  ELSE ParseTrack(Tail(msgs), track_idx, tpb, ProcessMsg(Head(msgs), track_idx, tpb, st))

\* The head of the track loop with the pending notes kept from track to track.
TrackStartKeepActive(st) == [st EXCEPT !.cumulative_ticks = 0]

\* The head of the track loop of parse(): cumulative_ticks = 0 and
\* track_active_notes = {} on every track.
TrackStart(st) == [st EXCEPT !.cumulative_ticks = 0, !.active = << >>]

\* The track loop of parse().
RECURSIVE ParseTracks(_, _, _, _)
ParseTracks(tracks, track_idx, tpb, st) ==
  IF tracks = << >> THEN st
  ELSE ParseTracks(Tail(tracks), track_idx + 1, tpb,
         ParseTrack(Head(tracks), track_idx, tpb, TrackStart(st)))

\* An ordering that moves a later element in front of its equals.
KeepsPlaceStrict(a, n) == a.start_time < n.start_time

\* list.sort(key=lambda x: x.start_time) is stable: an element stays behind
\* every earlier element whose key is not greater.
KeepsPlace(a, n) == a.start_time <= n.start_time

\* list.sort(key = start_time), as insertion of each element in turn.
RECURSIVE InsertByStart(_, _)
InsertByStart(sorted, n) ==
  IF sorted = << >> THEN << n >>
  ELSE IF KeepsPlace(sorted[Len(sorted)], n) THEN Append(sorted, n)
  ELSE Append(InsertByStart(SubSeq(sorted, 1, Len(sorted) - 1), n), sorted[Len(sorted)])

RECURSIVE SortByStart(_)
SortByStart(s) ==
  IF s = << >> THEN << >>
  ELSE InsertByStart(SortByStart(SubSeq(s, 1, Len(s) - 1)), s[Len(s)])

\* parse(): self.notes restarts empty; self.tempo and self.total_time are
\* whatever the parser object holds when parse() is called.
Parse(file, tempo, total_time) ==
  LET st == ParseTracks(file.tracks, 0, file.ticks_per_beat,
                        [notes |-> << >>, tempo |-> tempo, total_time |-> total_time,
                         cumulative_ticks |-> 0, active |-> << >>])
  IN  [notes |-> SortByStart(st.notes), tempo |-> st.tempo, total_time |-> st.total_time]

\* max(end_time) over the intervals; 0 without intervals.
RECURSIVE MaxEnd(_)
MaxEnd(ns) ==
  IF ns = << >> THEN 0 ELSE Max(ns[Len(ns)].end_time, MaxEnd(SubSeq(ns, 1, Len(ns) - 1)))

\* ---------------------------------------------------------------- state
VARIABLES
  notes,             \* PianoVisualizerApp.notes: the loaded interval list
  note_playing,      \* per interval, the ad hoc attribute Note._playing:
                     \*   "unset" (no attribute), "true" or "false"
  current_time,      \* PianoVisualizerApp.current_time
  total_time,        \* PianoVisualizerApp.total_time
  playing,           \* PianoVisualizerApp.playing
  speed,             \* PianoVisualizerApp.speed
  start_time,        \* PianoVisualizerApp.start_time, the reference instant
  ui_playing,        \* ControlPanel.playing
  parser_tempo,      \* MIDIParser.tempo
  parser_total_time, \* MIDIParser.total_time
  sounding,          \* SoundEngine: pitches whose mixer channel is playing
  now,               \* time.time() * 1000
  nSpeedChanges,     \* number of speed changes so far (capped)
  nPlay,             \* per interval, play_note calls the resolver made for it
  nStop,             \* per interval, stop_note calls the resolver made for it
  last,              \* the handler that ran last and the audio calls it made
  midi_file,         \* MIDIParser.midi_file: the file decoded last
  visible_notes,     \* run(): the list _get_visible_notes returned last
  pc,                \* where the process is: "main" (before run), "loop"
                     \*   (the while loop of run) or "exited"
  running,           \* PianoVisualizerApp.running
  args,              \* main(): what the command line holds
  exit_code,         \* the exit status of the process once pc = "exited"
  pressed_keys,      \* PianoVisualizerApp.pressed_keys
  sound_engine,      \* SoundEngine: initialized, muted, sounds, and whether
                     \*   the calls into pygame.mixer raise
  converted,         \* the (ticks, ms) pairs _ticks_to_ms has returned
  held,              \* the keyboard: the piano keys of the computer
                     \*   keyboard that are down
  progress           \* ProgressBar.progress, a fraction << p, q >> in
                     \*   lowest terms

vars == << notes, note_playing, current_time, total_time, playing, speed,
           start_time, ui_playing, parser_tempo, parser_total_time, sounding,
           now, nSpeedChanges, nPlay, nStop, last, midi_file, visible_notes,
           pc, running, args, exit_code, pressed_keys, sound_engine,
           converted, held,
                  progress >>

\* What the handlers of the playback session never write.
processVars == << pc, running, args, exit_code, pressed_keys, sound_engine,
                 converted, held,
                  progress >>

\* _generate_missing_sounds: a sample for every key of the piano.
PianoRange == 21..108

\* The audio backend after a successful load_sounds.
EngineReady ==
  [initialized |-> TRUE, muted |-> FALSE, sounds |-> PianoRange, raises |-> FALSE]

\* python main.py: no file, default window size.
NoArgs == [valid |-> TRUE, midi_file |-> "none", interactive |-> FALSE]

\* The fields of the process once run() has entered its loop.
InLoop ==
  /\ pc = "loop"
  /\ running = TRUE
  /\ exit_code = 0
  /\ pressed_keys = {}

Call(op, note) == [op |-> op, note |-> note]
StopAllCall == Call("stop_all", 0)

\* The position _update_playback computes at the present instant.
Position == ((now - start_time) * speed) \div SpeedUnit

\* PianoVisualizerApp.__init__ and ControlPanel.__init__: no piece, stopped.
NoSession ==
  /\ notes = << >>
  /\ note_playing = << >>
  /\ current_time = 0
  /\ total_time = 0
  /\ playing = FALSE
  /\ speed = DEFAULT_SPEED
  /\ start_time = 0
  /\ ui_playing = FALSE
  /\ sounding = {}
  /\ now = 0
  /\ nSpeedChanges = 0
  /\ nPlay = << >>
  /\ nStop = << >>
  /\ last = [op |-> "init", calls |-> << >>]
  /\ visible_notes = << >>

\* MIDIParser.__init__
NewParser ==
  /\ parser_tempo = DEFAULT_TEMPO
  /\ parser_total_time = 0
  /\ midi_file = NoFile

Init ==
  /\ NoSession
  /\ NewParser
  /\ InLoop
  /\ args = NoArgs
  /\ sound_engine = EngineReady
  /\ converted = {}
  /\ held = {}
  /\ progress = << 0, 1 >>

\* ------------------------------------------------------------ SoundEngine
\* The value play_note(note, velocity) returns: False when the backend is
\* not initialised or muted, when the pitch has no sample, and when a call
\* into the mixer raises (the exception is caught inside play_note).
PlayNote(note) ==
  /\ sound_engine.initialized
  /\ ~sound_engine.muted
  /\ note \in sound_engine.sounds
  /\ ~sound_engine.raises

\* play_note: the pitch's channel is (re)started when the call succeeds.
EnginePlay(snd, note) == IF PlayNote(note) THEN snd \cup {note} ELSE snd
\* stop_note: the pitch's channel, if any, is stopped.
EngineStop(snd, note) ==
  IF sound_engine.initialized /\ ~sound_engine.raises THEN snd \ {note} ELSE snd
\* stop_all_notes: pygame.mixer.stop() and channels.clear().
EngineStopAll(snd) ==
  IF sound_engine.initialized /\ ~sound_engine.raises THEN {} ELSE snd

\* --------------------------------------------------- PianoVisualizerApp
\* _stop_playback without the stop_all_notes call.
StopPlaybackNoSilence ==
  /\ playing' = FALSE
  /\ current_time' = 0
  /\ sounding' = sounding

\* _stop_playback
StopPlayback ==
  /\ playing' = FALSE
  /\ current_time' = 0
  /\ sounding' = EngineStopAll(sounding)

\* _start_playback taking the present instant as the reference instant.
StartPlaybackFromZero ==
  IF notes = << >>
  THEN UNCHANGED << playing, start_time >>
  ELSE /\ playing' = TRUE
       /\ start_time' = now

\* _start_playback without the test for an empty timeline.
StartPlaybackNoCheck ==
  /\ playing' = TRUE
  /\ start_time' = now - ((current_time * SpeedUnit) \div speed)

\* _start_playback with the frozen position taken off the present instant
\* as it is, not divided by the speed.
StartPlaybackUnscaled ==
  IF notes = << >>
  THEN UNCHANGED << playing, start_time >>
  ELSE /\ playing' = TRUE
       /\ start_time' = now - current_time

\* _start_playback
StartPlayback ==
  IF notes = << >>
  THEN UNCHANGED << playing, start_time >>
  ELSE /\ playing' = TRUE
       /\ start_time' = now - ((current_time * SpeedUnit) \div speed)

\* _pause_playback (pause_time is written and never read)
PausePlayback ==
  /\ playing' = FALSE

\* The flag of an interval that is set only when play_note returned True.
FlagOnlyIfPlayed(ok) == IF ok THEN "true" ELSE "unset"

\* note._playing = True follows the play_note call whatever it returned.
FlagAfterPlay(ok) == "true"

\* The body of the loop of _play_current_notes for interval i, applied to the
\* running result r = [flags, snd, calls, nplay, nstop].
TriggerNote(i, pos, r) ==
  IF /\ notes[i].start_time <= pos
     /\ pos <= notes[i].start_time + time_window
     /\ r.flags[i] = "unset"
  THEN [r EXCEPT !.flags[i] = FlagAfterPlay(PlayNote(notes[i].note)),
                 !.snd = EnginePlay(r.snd, notes[i].note),
                 !.calls = Append(r.calls, Call("play", notes[i].note)),
                 !.nplay[i] = r.nplay[i] + 1]
  ELSE IF /\ notes[i].end_time <= pos
          /\ r.flags[i] = "true"
  THEN [r EXCEPT !.flags[i] = "false",
                 !.snd = EngineStop(r.snd, notes[i].note),
                 !.calls = Append(r.calls, Call("stop", notes[i].note)),
                 !.nstop[i] = r.nstop[i] + 1]
  ELSE r

\* _play_current_notes: intervals 1..i handled in list order.
RECURSIVE PlayCurrentNotes(_, _, _)
PlayCurrentNotes(i, pos, r) ==
  IF i = 0 THEN r ELSE TriggerNote(i, pos, PlayCurrentNotes(i - 1, pos, r))

\* _get_visible_notes with strict comparisons.
GetVisibleNotesStrict(ns, t) ==
  IF ns = << >> THEN << >>
  ELSE SelectSeq(ns, LAMBDA n : /\ n.start_time < t + look_ahead_time
                                /\ n.end_time > t - look_behind_time)

\* _get_visible_notes
GetVisibleNotes(ns, t) ==
  IF ns = << >> THEN << >>
  ELSE SelectSeq(ns, LAMBDA n : /\ n.start_time <= t + look_ahead_time
                                /\ n.end_time >= t - look_behind_time)

\* The early return of _update_playback without the test of self.playing.
UpdateSkippedIgnoresPlaying == notes = << >>

\* The early return of _update_playback.
UpdateSkipped == ~playing \/ notes = << >>

\* The end-of-piece test of _update_playback with > for >=.
AtEndStrict(pos) == pos > total_time

\* The end-of-piece test of _update_playback.
AtEnd(pos) == pos >= total_time

\* The greatest common divisor of a and b.
RECURSIVE Gcd(_, _)
Gcd(a, b) == IF b = 0 THEN a ELSE Gcd(b, a % b)

\* ProgressBar.set_progress: min(1.0, current_time / total_time) when
\* total_time > 0, else 0.0.
SetProgress(c, t) ==
  IF t > 0
  THEN IF c >= t THEN << 1, 1 >>
       ELSE << c \div Gcd(c, t), t \div Gcd(c, t) >>
  ELSE << 0, 1 >>

\* while self.running: the loop goes on, or run() falls into its finally
\* clause.
LoopTest == IF running THEN "loop" ELSE "finally"

\* One iteration of the main loop after its events were handled:
\* _update_playback at the present instant, then drawing and clock.tick,
\* which take d ms of wall-clock time.
Frame(d) ==
  /\ pc = "loop"
  /\ playing \/ now < MaxNow
  /\ now' = now + d
  /\ IF UpdateSkipped
     THEN /\ last' = [op |-> "frame", calls |-> << >>]
          /\ UNCHANGED << current_time, playing, sounding, note_playing,
                          nPlay, nStop, ui_playing, progress >>
     ELSE IF AtEnd(Position)
     THEN /\ StopPlayback
          /\ ui_playing' = FALSE
          /\ last' = [op |-> "frame", calls |-> << StopAllCall >>]
          /\ UNCHANGED << note_playing, nPlay, nStop, progress >>
     ELSE LET r == PlayCurrentNotes(Len(notes), Position,
                     [flags |-> note_playing, snd |-> sounding, calls |-> << >>,
                      nplay |-> nPlay, nstop |-> nStop])
          IN  /\ current_time' = Position
              /\ note_playing' = r.flags
              /\ sounding' = r.snd
              /\ nPlay' = r.nplay
              /\ nStop' = r.nstop
              /\ last' = [op |-> "frame", calls |-> r.calls]
              /\ progress' = SetProgress(Position, total_time)
              /\ UNCHANGED << playing, ui_playing >>
  /\ visible_notes' = GetVisibleNotes(notes, current_time')
  /\ UNCHANGED << notes, total_time, speed, start_time, parser_tempo,
                  parser_total_time, nSpeedChanges, midi_file >>
  /\ pc' = LoopTest
  /\ UNCHANGED << running, args, exit_code, pressed_keys, sound_engine,
                  converted, held >>

\* ControlPanel._on_play_pause_click (Play/Pause button, space key)
\* -> _on_play_pause -> _start_playback or _pause_playback
PlayPauseClick ==
  /\ pc = "loop"
  /\ ui_playing \/ now < MaxNow
  /\ ui_playing' = ~ui_playing
  /\ IF ui_playing'
     THEN /\ StartPlayback
          /\ last' = [op |-> "start", calls |-> << >>]
     ELSE /\ PausePlayback
          /\ last' = [op |-> "pause", calls |-> << >>]
          /\ UNCHANGED start_time
  /\ UNCHANGED << notes, note_playing, current_time, total_time, speed,
                  parser_tempo, parser_total_time, sounding, now,
                  nSpeedChanges, nPlay, nStop, midi_file, visible_notes >>
  /\ UNCHANGED processVars

\* ControlPanel._on_stop_click -> _on_stop -> _stop_playback
StopClick ==
  /\ pc = "loop"
  /\ ui_playing' = FALSE
  /\ StopPlayback
  /\ last' = [op |-> "stop", calls |-> << StopAllCall >>]
  /\ UNCHANGED << notes, note_playing, total_time, speed, start_time,
                  parser_tempo, parser_total_time, now,
                  nSpeedChanges, nPlay, nStop, midi_file, visible_notes >>
  /\ UNCHANGED processVars

\* Slider drag or arrow key -> _on_speed_change(s)
SpeedChange(s) ==
  /\ pc = "loop"
  /\ s # speed
  /\ nSpeedChanges < MaxSpeedChanges
  /\ nSpeedChanges' = nSpeedChanges + 1
  /\ speed' = s
  /\ last' = [op |-> "speed", calls |-> << >>]
  /\ UNCHANGED << notes, note_playing, current_time, total_time, playing, start_time,
                  ui_playing, parser_tempo, parser_total_time, sounding, now,
                  nPlay, nStop, midi_file, visible_notes >>
  /\ UNCHANGED processVars

\* The flags of a list whose Note objects survive the load: position i
\* keeps what the flag at position i was.
KeptFlags(ns) ==
  [i \in 1..Len(ns) |-> IF i \in DOMAIN note_playing THEN note_playing[i] ELSE "unset"]

\* parse() builds new Note objects: none has the attribute _playing.
FreshFlags(ns) == [i \in 1..Len(ns) |-> "unset"]

\* load_midi_file(f)
LoadMidiFile(f) ==
  /\ StopPlayback
  /\ IF f.ok
     THEN LET p == Parse(f, parser_tempo, parser_total_time)
          IN  /\ notes' = p.notes
              /\ note_playing' = FreshFlags(p.notes)
              /\ midi_file' = f
              /\ nPlay' = [i \in 1..Len(p.notes) |-> 0]
              /\ nStop' = [i \in 1..Len(p.notes) |-> 0]
              /\ total_time' = p.total_time
              /\ parser_tempo' = p.tempo
              /\ parser_total_time' = p.total_time
              /\ last' = [op |-> "load", calls |-> << StopAllCall >>]
     ELSE /\ last' = [op |-> "load_failed", calls |-> << StopAllCall >>]
          /\ UNCHANGED << notes, note_playing, nPlay, nStop, total_time,
                          parser_tempo, parser_total_time, midi_file >>
  /\ UNCHANGED << speed, start_time, ui_playing, now, nSpeedChanges, visible_notes >>

\* _on_file_select -> load_midi_file(f)
LoadFile(f) ==
  /\ pc = "loop"
  /\ LoadMidiFile(f)
  /\ UNCHANGED processVars

Next ==
  \/ \E d \in Deltas : Frame(d)
  \/ PlayPauseClick
  \/ StopClick
  \/ \E s \in Speeds : SpeedChange(s)
  \/ \E f \in Files : LoadFile(f)

Spec == Init /\ [][Next]_vars

\* The long piece: it is loaded, started and paused, and frames go by.
VisibleNext ==
  \/ \E d \in LongDeltas : Frame(d)
  \/ PlayPauseClick
  \/ LoadFile(LongFile)

VisibleSpec == Init /\ [][VisibleNext]_vars

\* The builder alone: a generated file is loaded into a new parser, or into
\* a parser that built one of the seed files before.
Build ==
  /\ midi_file \in {NoFile} \cup SeedFiles
  /\ \E f \in GenFiles : LoadFile(f)

BuildNext == Build

BuildSpec == Init /\ [][BuildNext]_vars

\* _ticks_to_ms alone: a parser holds some ticks_per_beat and some tempo,
\* and tick counts are converted one after the other.
ConvInit ==
  /\ NoSession
  /\ InLoop
  /\ args = NoArgs
  /\ sound_engine = EngineReady
  /\ converted = {}
  /\ held = {}
  /\ progress = << 0, 1 >>
  /\ parser_total_time = 0
  /\ parser_tempo \in Tempos
  /\ \E tpb \in ConvTpbs :
        midi_file = [ok |-> TRUE, ticks_per_beat |-> tpb, tracks |-> << >>]

\* self._ticks_to_ms(ticks)
Convert(ticks) ==
  /\ \A c \in converted : c[1] # ticks
  /\ converted' = converted \cup
       { << ticks, TicksToMs(ticks, midi_file.ticks_per_beat, parser_tempo) >> }
  /\ UNCHANGED << notes, note_playing, current_time, total_time, playing, speed,
                  start_time, ui_playing, parser_tempo, parser_total_time,
                  sounding, now, nSpeedChanges, nPlay, nStop, last, midi_file,
                  visible_notes, pc, running, args, exit_code, pressed_keys,
                  sound_engine, held, progress >>

ConvNext == \E ticks \in ConvTicks : Convert(ticks)

ConvSpec == ConvInit /\ [][ConvNext]_vars

\* The hand given to a pitch with the split note itself counted as left.
PitchHandInclusive(note, split_note) ==
  IF note <= split_note THEN "left" ELSE "right"

\* 'left' if note.note < split_note else 'right'
PitchHand(note, split_note) ==
  IF note < split_note THEN "left" ELSE "right"

\* MIDIParser.split_hands_by_pitch(split_note): the parser's list is the
\* list object the application holds, so the hands change in place.
SplitHandsByPitch(split_note) ==
  /\ notes' = [i \in 1..Len(notes) |->
                 [notes[i] EXCEPT !.hand = PitchHand(notes[i].note, split_note)]]
  /\ last' = [op |-> "split_pitch", calls |-> << >>, split_note |-> split_note]
  /\ UNCHANGED << note_playing, current_time, total_time, playing, speed,
                  start_time, ui_playing, parser_tempo, parser_total_time,
                  sounding, now, nSpeedChanges, nPlay, nStop, midi_file,
                  visible_notes >>
  /\ UNCHANGED processVars

\* The files whose hands are reassigned, and the split notes tried: the
\* default, its neighbours and the highest pitch of the files.
HandFiles == WideFiles \cup {ChordFile, TestFile, FileA, FileB}
SplitNotes == {MIDDLE_C - 1, MIDDLE_C, MIDDLE_C + 1, 64}

\* A file is loaded into a new parser and its hands are reassigned.
HandsNext ==
  \/ /\ midi_file = NoFile
     /\ \E f \in HandFiles : LoadFile(f)
  \/ \E split_note \in SplitNotes : SplitHandsByPitch(split_note)

HandsSpec == Init /\ [][HandsNext]_vars

\* The states load_sounds, _initialize_sound_system and mute leave the
\* backend in, and a mixer whose calls raise.
EngineStates ==
  { EngineReady,
    [EngineReady EXCEPT !.sounds = {}],
    [EngineReady EXCEPT !.initialized = FALSE, !.sounds = {}],
    [EngineReady EXCEPT !.muted = TRUE],
    [EngineReady EXCEPT !.raises = TRUE] }

\* The application with any of the backends, playing the file with a chord.
AudioInit ==
  /\ NoSession
  /\ NewParser
  /\ InLoop
  /\ args = NoArgs
  /\ sound_engine \in EngineStates
  /\ converted = {}
  /\ held = {}
  /\ progress = << 0, 1 >>

AudioNext ==
  \/ \E d \in Deltas : Frame(d)
  \/ PlayPauseClick
  \/ StopClick
  \/ LoadFile(ChordFile)

AudioSpec == AudioInit /\ [][AudioNext]_vars

\* What the playback session consists of.
sessionVars == << notes, note_playing, current_time, total_time, playing, speed,
                 start_time, ui_playing, parser_tempo, parser_total_time,
                 sounding, now, nSpeedChanges, nPlay, nStop, midi_file,
                 visible_notes >>

\* sys.exit(code), or the end of main() with code 0.
Exit(code) ==
  /\ pc' = "exited"
  /\ exit_code' = code
  /\ UNCHANGED << running, args, pressed_keys, sound_engine, converted,
                  held, progress >>

\* The test of main() that is always false: every path is taken as present.
PathMissingNever(a) == FALSE

\* args.midi_file and not os.path.exists(args.midi_file)
PathMissing(a) == a.given /\ ~a.exists

\* main(): parse_arguments, the test of the path, the constructor, and
\* run() up to the entry of its loop: initialize (which may fail, and which
\* may find no sounds to load) and the load of the file named.
Main ==
  /\ pc = "main"
  /\ IF ~args.valid
     THEN /\ Exit(2)
          /\ last' = [op |-> "main", calls |-> << >>]
          /\ UNCHANGED sessionVars
     ELSE IF PathMissing(args)
     THEN /\ Exit(1)
          /\ last' = [op |-> "main", calls |-> << >>]
          /\ UNCHANGED sessionVars
     ELSE \E initialized \in BOOLEAN :
            IF ~initialized
            THEN /\ Exit(0)
                 /\ last' = [op |-> "main", calls |-> << >>]
                 /\ UNCHANGED sessionVars
            ELSE /\ \E sounds \in {{}, PianoRange} :
                      sound_engine' = [sound_engine EXCEPT !.sounds = sounds]
                 /\ IF ~args.interactive /\ args.given /\ args.exists
                    THEN LoadMidiFile(args.file)
                    ELSE /\ last' = [op |-> "main", calls |-> << >>]
                         /\ UNCHANGED sessionVars
                 /\ running' = TRUE
                 /\ pc' = "loop"
                 /\ UNCHANGED << args, exit_code, pressed_keys, converted,
                  held, progress >>

\* The QUIT event, or the escape key: self.running = False.
Quit ==
  /\ pc = "loop"
  /\ running
  /\ running' = FALSE
  /\ last' = [op |-> "quit", calls |-> << >>]
  /\ UNCHANGED sessionVars
  /\ UNCHANGED << pc, args, exit_code, pressed_keys, sound_engine, converted,
                  held, progress >>

\* Where control goes when a statement of the loop raises, if the handler
\* sat inside the loop.
AfterRaiseInsideLoop == "loop"

\* Where control goes when a statement of the loop raises: the try
\* statement encloses the whole while loop, so to the handler behind the
\* loop and on to the finally clause.
AfterRaise == "finally"

\* An iteration of the loop whose first call raises an Exception.
FrameRaises ==
  /\ pc = "loop"
  /\ running
  /\ pc' = AfterRaise
  /\ last' = [op |-> "raised", calls |-> << >>]
  /\ UNCHANGED sessionVars
  /\ UNCHANGED << running, args, exit_code, pressed_keys, sound_engine,
                  converted, held,
                  progress >>

\* finally: self.cleanup(), then run() and main() return.
Cleanup ==
  /\ pc = "finally"
  /\ sounding' = EngineStopAll(sounding)
  /\ sound_engine' = [sound_engine EXCEPT !.sounds = {}, !.initialized = FALSE]
  /\ last' = [op |-> "cleanup", calls |-> << StopAllCall >>]
  /\ pc' = "exited"
  /\ exit_code' = 0
  /\ UNCHANGED << running, args, pressed_keys, converted,
                  held, progress >>
  /\ UNCHANGED << notes, note_playing, current_time, total_time, playing, speed,
                  start_time, ui_playing, parser_tempo, parser_total_time,
                  now, nSpeedChanges, nPlay, nStop, midi_file, visible_notes >>

\* The command lines: rejected by argparse or not, with or without a path,
\* which exists or not and holds a MIDI file or not, with or without
\* --interactive.
ArgsSet ==
  { [valid |-> v, given |-> g, exists |-> e, file |-> f, interactive |-> i] :
      v \in BOOLEAN, g \in BOOLEAN, e \in BOOLEAN, f \in {FileA, FileBad},
      i \in BOOLEAN }

\* The process at the entry of main().
MainInit ==
  /\ NoSession
  /\ NewParser
  /\ pc = "main"
  /\ running = FALSE
  /\ exit_code = 0
  /\ pressed_keys = {}
  /\ args \in { a \in ArgsSet : (a.given /\ a.exists) \/ a.file = FileBad }
  /\ sound_engine = [EngineReady EXCEPT !.sounds = {}]
  /\ converted = {}
  /\ held = {}
  /\ progress = << 0, 1 >>

RunNext ==
  \/ Main
  \/ \E d \in Deltas : Frame(d)
  \/ PlayPauseClick
  \/ Quit
  \/ FrameRaises
  \/ Cleanup

RunSpec == MainInit /\ [][RunNext]_vars

\* PianoRenderer.key_mapping and get_note_from_key, for the keys pressed
\* here; 0 stands for None (no piano key).
GetNoteFromKey(key) ==
  IF key = "r" THEN 65
  ELSE IF key = "q" \/ key = "comma" THEN 60
  ELSE IF key = "w" \/ key = "period" THEN 62
  ELSE IF key = "z" THEN 48
  ELSE 0

\* Slider(..., 0.1, 3.0, 1.0, "Velocidad", ...): min_val and max_val, and
\* rect.width - handle_width, the pixels the handle travels.
MinSpeed == SpeedUnit \div 10
MaxSpeed == 3 * SpeedUnit
SliderTravel == 150 - 20
\* The left edge of the speed slider (start_x).
SliderX == 20
\* The step of the arrow keys: 0.1.
ArrowStep == SpeedUnit \div 10

Min(a, b) == IF a <= b THEN a ELSE b

\* The speed after the left arrow key if nothing held it above zero.
SlowerUnclamped(s) == s - ArrowStep

\* new_speed = max(0.1, self.speed - 0.1)
Slower(s) == Max(MinSpeed, s - ArrowStep)

\* new_speed = min(3.0, self.speed + 0.1)
Faster(s) == Min(MaxSpeed, s + ArrowStep)

\* Slider.handle_event on MOUSEMOTION while dragging: the value under the
\* mouse at abscissa x.
SliderValue(x) ==
  LET relative_x == Max(0, Min(x - SliderX, SliderTravel))
  IN  MinSpeed + (relative_x * (MaxSpeed - MinSpeed)) \div SliderTravel

\* The handle of the speed slider is dragged to abscissa x: the slider
\* takes the value and calls back ControlPanel._on_speed_change ->
\* PianoVisualizerApp._on_speed_change.
SpeedSliderDrag(x) ==
  /\ pc = "loop"
  /\ speed' = SliderValue(x)
  /\ last' = [op |-> "speed", calls |-> << >>, x |-> x]
  /\ UNCHANGED << notes, note_playing, current_time, total_time, playing,
                  start_time, ui_playing, parser_tempo, parser_total_time,
                  sounding, now, nSpeedChanges, nPlay, nStop, midi_file,
                  visible_notes >>
  /\ UNCHANGED processVars

\* _handle_keyboard_input on KEYDOWN: the first branch that applies, in
\* the order of the if/elif chain (the volume keys are left out).
KeyDown(key) ==
  /\ pc = "loop"
  /\ LET midi_note == GetNoteFromKey(key)
     IN  IF midi_note # 0 /\ midi_note \notin pressed_keys
         THEN /\ pressed_keys' = pressed_keys \cup {midi_note}
              /\ sounding' = EnginePlay(sounding, midi_note)
              /\ last' = [op |-> "key_down", calls |-> << Call("play", midi_note) >>,
                          key |-> key]
              /\ UNCHANGED << notes, note_playing, current_time, total_time,
                              playing, speed, start_time, ui_playing,
                              parser_tempo, parser_total_time, now,
                              nSpeedChanges, nPlay, nStop, midi_file,
                              visible_notes >>
              /\ held' = held \cup {key}
              /\ UNCHANGED << pc, running, args, exit_code, sound_engine,
                              converted, progress >>
         ELSE IF key = "space"
         THEN PlayPauseClick
         ELSE IF key = "r"
         THEN /\ StopPlayback
              /\ last' = [op |-> "key_down", calls |-> << StopAllCall >>,
                          key |-> key]
              /\ UNCHANGED << notes, note_playing, total_time, speed,
                              start_time, ui_playing, parser_tempo,
                              parser_total_time, now, nSpeedChanges, nPlay,
                              nStop, midi_file, visible_notes >>
              /\ held' = held \cup {key}
              /\ UNCHANGED << pc, running, args, exit_code, pressed_keys,
                              sound_engine, converted, progress >>
         ELSE IF key = "escape"
         THEN /\ running' = FALSE
              /\ last' = [op |-> "key_down", calls |-> << >>, key |-> key]
              /\ UNCHANGED sessionVars
              /\ UNCHANGED << pc, args, exit_code, pressed_keys, sound_engine,
                              converted, held,
                  progress >>
         ELSE IF key = "left" \/ key = "right"
         THEN /\ speed' = (IF key = "left" THEN Slower(speed) ELSE Faster(speed))
              /\ last' = [op |-> "key_down", calls |-> << >>, key |-> key]
              /\ UNCHANGED << notes, note_playing, current_time, total_time,
                              playing, start_time, ui_playing, parser_tempo,
                              parser_total_time, sounding, now, nSpeedChanges,
                              nPlay, nStop, midi_file, visible_notes >>
              /\ UNCHANGED processVars
         ELSE /\ last' = [op |-> "key_down", calls |-> << >>, key |-> key]
              /\ held' = (IF midi_note # 0 THEN held \cup {key} ELSE held)
              /\ UNCHANGED sessionVars
              /\ UNCHANGED << pc, running, args, exit_code, pressed_keys,
                              sound_engine, converted, progress >>

\* _handle_keyboard_input on KEYUP
KeyUp(key) ==
  /\ pc = "loop"
  /\ LET midi_note == GetNoteFromKey(key)
     IN  IF midi_note # 0 /\ midi_note \in pressed_keys
         THEN /\ pressed_keys' = pressed_keys \ {midi_note}
              /\ sounding' = EngineStop(sounding, midi_note)
              /\ last' = [op |-> "key_up", calls |-> << Call("stop", midi_note) >>,
                          key |-> key]
         ELSE /\ last' = [op |-> "key_up", calls |-> << >>, key |-> key]
              /\ UNCHANGED << pressed_keys, sounding >>
  /\ UNCHANGED << notes, note_playing, current_time, total_time, playing, speed,
                  start_time, ui_playing, parser_tempo, parser_total_time, now,
                  nSpeedChanges, nPlay, nStop, midi_file, visible_notes >>
  /\ held' = held \ {key}
  /\ UNCHANGED << pc, running, args, exit_code, sound_engine, converted, progress >>

\* The keys pressed while a piece plays: R, the space bar, and Q.
TransportKeys == {"r", "space", "q"}

\* A piece is loaded and played, and keys go down and up.
KeysNext ==
  \/ \E d \in Deltas : Frame(d)
  \/ LoadFile(FileA)
  \/ \E key \in TransportKeys : KeyDown(key)
  \/ \E key \in TransportKeys : KeyUp(key)

KeysSpec == Init /\ [][KeysNext]_vars

\* The abscissas the handle of the speed slider is dragged to: left of the
\* slider, its two ends, points in between, right of it.
DragXs == {0, SliderX, SliderX + 1, SliderX + 65, SliderX + SliderTravel, 400}

\* The speed is changed with the slider and the arrow keys.
SpeedNext ==
  \/ \E x \in DragXs : SpeedSliderDrag(x)
  \/ \E key \in {"left", "right"} : KeyDown(key)

SpeedSpec == Init /\ [][SpeedNext]_vars

\* A mouse click on the progress bar at the place that stands for
\* target ms.  The bar is not among ControlPanel.components and has no
\* handle_event, so ControlPanel.handle_event returns False, and
\* _handle_keyboard_input has no branch for a mouse event.
ProgressBarClick(target) ==
  /\ pc = "loop"
  /\ last' = [op |-> "progress_click", calls |-> << >>, target |-> target]
  /\ UNCHANGED sessionVars
  /\ UNCHANGED processVars

\* The places clicked: the start, inside the first interval of FileA,
\* inside the second one, and past the end of the piece.
ClickTargets == {0, 20, 150, 300}

\* A piece is loaded, played and paused, and the progress bar is clicked.
SeekNext ==
  \/ \E d \in Deltas : Frame(d)
  \/ PlayPauseClick
  \/ LoadFile(FileA)
  \/ \E target \in ClickTargets : ProgressBarClick(target)

SeekSpec == Init /\ [][SeekNext]_vars

\* The hand by channel lists with the right-hand list looked at first.
ChannelHandRightFirst(channel, note, left_channels, right_channels) ==
  IF channel \in right_channels THEN "right"
  ELSE IF channel \in left_channels THEN "left"
  ELSE IF note < 60 THEN "left" ELSE "right"

\* The if/elif/else of split_hands_by_channel; the lists are only asked
\* for membership, so they are held as sets.
ChannelHand(channel, note, left_channels, right_channels) ==
  IF channel \in left_channels THEN "left"
  ELSE IF channel \in right_channels THEN "right"
  ELSE IF note < 60 THEN "left" ELSE "right"

\* MIDIParser.split_hands_by_channel(left_channels, right_channels)
SplitHandsByChannel(left_channels, right_channels) ==
  /\ notes' = [i \in 1..Len(notes) |->
                 [notes[i] EXCEPT !.hand = ChannelHand(notes[i].channel, notes[i].note,
                                                      left_channels, right_channels)]]
  /\ last' = [op |-> "split_channel", calls |-> << >>,
              left_channels |-> left_channels, right_channels |-> right_channels]
  /\ UNCHANGED << note_playing, current_time, total_time, playing, speed,
                  start_time, ui_playing, parser_tempo, parser_total_time,
                  sounding, now, nSpeedChanges, nPlay, nStop, midi_file,
                  visible_notes >>
  /\ UNCHANGED processVars

\* The channel lists tried: every set of the channels the files use.
ChannelLists == SUBSET {0, 1, 2}

\* A file is loaded into a new parser and its hands are reassigned by
\* channel.
ChannelsNext ==
  \/ /\ midi_file = NoFile
     /\ \E f \in HandFiles : LoadFile(f)
  \/ \E left_channels \in ChannelLists : \E right_channels \in ChannelLists :
       SplitHandsByChannel(left_channels, right_channels)

ChannelsSpec == Init /\ [][ChannelsNext]_vars

\* Playback runs of one session that are never paused: a file is loaded,
\* Play is clicked while the button shows Play, frames go by, and a run ends
\* by a Stop click or at the end of the piece.
ReplayNext ==
  \/ \E f \in {FileA, FileB} : LoadFile(f)
  \/ /\ ~ui_playing
     /\ PlayPauseClick
  \/ StopClick
  \/ \E d \in Deltas : Frame(d)

ReplaySpec == Init /\ [][ReplayNext]_vars

\* A session on the file with two overlapping intervals of one pitch.
OverlapNext ==
  \/ LoadFile(OverlapFile)
  \/ PlayPauseClick
  \/ StopClick
  \/ \E d \in Deltas : Frame(d)

OverlapSpec == Init /\ [][OverlapNext]_vars

\* A session in which the speed is changed only while playback is paused
\* or stopped.
FrozenSpeedNext ==
  \/ LoadFile(FileA)
  \/ PlayPauseClick
  \/ StopClick
  \/ \E d \in Deltas : Frame(d)
  \/ /\ ~playing
     /\ \E s \in Speeds : SpeedChange(s)

FrozenSpeedSpec == Init /\ [][FrozenSpeedNext]_vars

\* The piano keys of the computer keyboard played here: both keys of the
\* pitches 60 and 62, and the one key of pitch 48.
PianoKeys == {"q", "comma", "w", "period", "z"}

\* The computer keyboard is played: a key that is up goes down, a key that
\* is down comes up (pygame sends no repeated key-down unless
\* pygame.key.set_repeat is called, and it is not).
PianoKeysNext ==
  \/ \E key \in PianoKeys : key \notin held /\ KeyDown(key)
  \/ \E key \in PianoKeys : key \in held /\ KeyUp(key)

PianoKeysSpec == Init /\ [][PianoKeysNext]_vars

\* PianoRenderer: the keyboard drawn starts at octave 2 and has 5 octaves.
start_octave == 2
num_octaves == 5

\* _calculate_key_positions: the pitches of the white and black keys drawn,
\* (start_octave + octave) * 12 + the place of the key in its octave.
KeyboardKeys ==
  { (start_octave + octave) * 12 + k : octave \in 0..(num_octaves - 1), k \in 0..11 }

\* PianoRenderer.draw: the notes of the list handed over that make the key
\* note_num active, start_time <= current_time * speed <= end_time.
ActiveNotes(ns, note_num, t, s) ==
  SelectSeq(ns, LAMBDA n : /\ n.note = note_num
                           /\ n.start_time * SpeedUnit <= t * s
                           /\ t * s <= n.end_time * SpeedUnit)

\* PianoRenderer.draw(screen, visible_notes, current_time, speed, ...): the
\* keys drawn in a hand's colour instead of white or black.
Highlighted(ns, t, s) ==
  { note_num \in KeyboardKeys : ActiveNotes(ns, note_num, t, s) # << >> }

\* The frames of the main loop keep coming.
FairSpec == Spec /\ WF_vars(\E d \in Deltas : Frame(d))

TypeOK ==
  /\ playing \in BOOLEAN /\ ui_playing \in BOOLEAN
  /\ speed \in MinSpeed..MaxSpeed
  /\ Len(note_playing) = Len(notes) /\ Len(nPlay) = Len(notes) /\ Len(nStop) = Len(notes)
  /\ \A i \in 1..Len(notes) : note_playing[i] \in {"unset", "true", "false"}

\* ------------------------------------------------------------ properties
FrameStep == last'.op = "frame"
EndOfPieceStep == FrameStep /\ ~UpdateSkipped /\ AtEnd(Position)
Intervals == 1..Len(notes)
HasCall(calls, op) == \E k \in 1..Len(calls) : calls[k].op = op

\* The clock went through the whole span of interval i: playback is at or
\* past its end, or has just run into the end of the piece.
PassedThrough(i) ==
  \/ playing /\ current_time >= notes[i].end_time
  \/ last.op = "frame" /\ last.calls = << StopAllCall >>

\* C1: once the clock has advanced, at constant speed, through the span of an
\* interval, the trigger resolver has issued exactly one play call and
\* exactly one stop call for that interval, whatever the frame steps were.
C1_OnePlayOneStop ==
  \A i \in Intervals :
    (nSpeedChanges = 0 /\ PassedThrough(i)) => (nPlay[i] = 1 /\ nStop[i] = 1)

\* C2: a speed change while playing re-anchors the reference instant: the
\* position the clock computes at the instant of the change is the same
\* before and after the change (no jump by new_speed / old_speed).
C2_SpeedChangeReanchors ==
  [][(playing /\ speed' # speed) => Position' = Position]_vars

\* C3: while not playing, frames leave current_time where pause froze it,
\* however much wall-clock time passes; and resuming re-anchors the
\* reference instant so that the position computed at the instant of the
\* resume is the frozen value (not 0).
C3_PauseFreezesResumeContinues ==
  [][ /\ (FrameStep /\ ~playing) => current_time' = current_time
      /\ (~playing /\ playing') =>
            (current_time' = current_time /\ Position' = current_time) ]_vars

\* A resume from a frozen position other than 0, after wall-clock time went by.
C3_Witness ==
  /\ last.op = "start" /\ playing
  /\ current_time > 0 /\ Position = current_time
  /\ start_time > 0

\* C4: every path that stops playback (stop command, end of piece, file load)
\* leaves is_playing false and current_time 0, issues stop_all to the audio
\* backend, and leaves no pitch sounding.
C4_StopSilencesAll ==
  [][ (last'.op \in {"stop", "load", "load_failed"} \/ EndOfPieceStep) =>
        /\ playing' = FALSE
        /\ current_time' = 0
        /\ HasCall(last'.calls, "stop_all")
        /\ sounding' = {} ]_vars

\* Playback ran into the end of the piece while an interval was still flagged.
C4_Witness ==
  /\ last.op = "frame" /\ last.calls = << StopAllCall >>
  /\ \E i \in Intervals : note_playing[i] = "true"
  /\ ~playing /\ current_time = 0 /\ sounding = {}

\* C5: with frames occurring, a playing clock eventually stops; the frame
\* whose computed position is at or past the total duration sets is_playing
\* false and current_time 0 and makes no play call.
C5_EndOfPieceStops ==
  /\ playing ~> ~playing
  /\ [][ (FrameStep /\ playing /\ notes # << >> /\ Position >= total_time) =>
           /\ playing' = FALSE
           /\ current_time' = 0
           /\ ~HasCall(last'.calls, "play") ]_vars

\* The clock stopped by itself in the frame whose position is exactly the
\* total duration.
C5_Witness ==
  /\ last.op = "frame" /\ last.calls = << StopAllCall >>
  /\ ~playing /\ ~ui_playing /\ current_time = 0
  /\ \E d \in Deltas : (now - d - start_time) * speed = total_time * SpeedUnit

\* C6: the position stays within [0, total duration of the loaded timeline].
C6_PositionInTimeline ==
  0 <= current_time /\ current_time <= MaxEnd(notes)

\* C7: current_time increases only in a frame update made while playing; a
\* frame update while not playing changes neither current_time nor any
\* sounding flag and makes no audio-backend call.
C7_AdvancesOnlyWhilePlaying ==
  [][ /\ (current_time' > current_time) => (FrameStep /\ playing)
      /\ (FrameStep /\ ~playing) =>
            /\ current_time' = current_time
            /\ note_playing' = note_playing
            /\ sounding' = sounding
            /\ last'.calls = << >> ]_vars

\* A frame went by while paused in the middle of the piece, a note flagged.
C7_Witness ==
  /\ last.op = "frame" /\ ~playing /\ last.calls = << >>
  /\ current_time > 0
  /\ \E i \in Intervals : note_playing[i] = "true"

\* C8: start() with an empty timeline leaves the clock stopped, with
\* current_time and the reference instant unchanged; start() from Stopped
\* with a non-empty timeline sets is_playing with the position at 0.
C8_StartNeedsTimeline ==
  [][ /\ (last'.op = "start" /\ notes = << >>) =>
            (~playing' /\ UNCHANGED << playing, current_time, start_time >>)
      /\ (last'.op = "start" /\ notes # << >> /\ ~playing /\ current_time = 0) =>
            (playing' /\ current_time' = 0 /\ Position' = 0) ]_vars

\* Play was clicked with nothing loaded, after time went by.
C8_Witness ==
  /\ last.op = "start" /\ notes = << >>
  /\ ~playing /\ ui_playing /\ now > start_time

\* C9: the reported total duration is the maximum end_time of the loaded
\* intervals, 0 without intervals, after any sequence of loads.
C9_TotalIsMaxEnd ==
  total_time = MaxEnd(notes)

\* C10: a failed load leaves the interval list, the total duration,
\* current_time and is_playing as they were.
C10_FailedLoadKeepsSession ==
  [][ last'.op = "load_failed" =>
        UNCHANGED << notes, total_time, current_time, playing >> ]_vars

\* ---------------------------------------------------------------- C11
\* The interval list is the one built from the file decoded last.
NotesOfFile ==
  IF midi_file = NoFile THEN notes = << >>
  ELSE \E tempo \in Tempos : notes = Parse(midi_file, tempo, 0).notes

\* C11: a successful load leaves, in one step of the event phase, the interval
\* list built from the new file alone, playback stopped at position 0, no
\* interval flagged as sounding and no pitch sounding; at every frame the
\* interval list is the list of the file decoded last.
C11_LoadReplacesAndResets ==
  /\ []NotesOfFile
  /\ [][last'.op = "load" =>
          /\ notes' = Parse(midi_file', parser_tempo, parser_total_time).notes
          /\ ~playing' /\ current_time' = 0
          /\ Len(note_playing') = Len(notes')
          /\ \A i \in 1..Len(notes') : note_playing'[i] = "unset"
          /\ sounding' = {}]_vars

\* A non-empty file was loaded over a session that had been started and had
\* run for some frames.
C11_Witness ==
  /\ last.op = "load" /\ notes # << >>
  /\ ui_playing /\ now >= 40 /\ start_time > 0

\* ------------------------------------------- the events of the file built
\* Read off midi_file independently of Parse: what a track says happened.
Opens(m) == m.type = "note_on" /\ m.velocity > 0
Closes(m) == m.type = "note_off" \/ (m.type = "note_on" /\ m.velocity = 0)
KeyOf(m) == << m.note, m.channel >>
OnKey(m, key) == (Opens(m) \/ Closes(m)) /\ KeyOf(m) = key

\* Absolute tick of message k of a track: the sum of the deltas up to it.
RECURSIVE TickAt(_, _)
TickAt(msgs, k) == IF k = 0 THEN 0 ELSE TickAt(msgs, k - 1) + msgs[k].time

SetMax(S) == CHOOSE x \in S : \A y \in S : y <= x

\* The latest event before position j on the key of message j (0: none).
PrevOnKey(msgs, j) ==
  LET c == { i \in 1..(j - 1) : OnKey(msgs[i], KeyOf(msgs[j])) }
  IN  IF c = {} THEN 0 ELSE SetMax(c)

\* The note-on pending when the closing event j arrives (0: none).
Opener(msgs, j) ==
  LET i == PrevOnKey(msgs, j)
  IN  IF i # 0 /\ Opens(msgs[i]) THEN i ELSE 0

\* The closing events of a track that find a pending note-on.
Emitting(msgs) ==
  { j \in 1..Len(msgs) : Closes(msgs[j]) /\ Opener(msgs, j) # 0 }

\* The tempo change of the same track that precedes message j last, or the
\* default tempo when the track has none before j.
TrackTempoAt(msgs, j) ==
  LET c == { i \in 1..(j - 1) : msgs[i].type = "set_tempo" }
  IN  IF c = {} THEN DEFAULT_TEMPO ELSE msgs[SetMax(c)].tempo

\* Interval n spans ticks a..b converted at tempo us/beat (no rounding).
Spans(n, a, b, tempo) ==
  /\ n.start_time * midi_file.ticks_per_beat * 1000 = a * tempo
  /\ n.end_time * midi_file.ticks_per_beat * 1000 = b * tempo

\* Interval n is what the closing event j of track t (1-based) emits when
\* both of its ticks are converted at tempo.
EmittedBy(n, t, j, tempo) ==
  LET msgs == midi_file.tracks[t]
  IN  /\ n.track = t - 1
      /\ KeyOf(msgs[j]) = << n.note, n.channel >>
      /\ Spans(n, TickAt(msgs, Opener(msgs, j)), TickAt(msgs, j), tempo)

TrackIds == 1..Len(midi_file.tracks)

\* ---------------------------------------------------------------- C12
\* C12: every interval is the conversion of its two ticks at the tempo its
\* own track has set before the closing event, or at the default 500000 when
\* the track has set none: tempo changes of other tracks and of files built
\* earlier by the same parser do not count.
C12_TempoPerTrack ==
  \A k \in 1..Len(notes) :
    \E j \in Emitting(midi_file.tracks[notes[k].track + 1]) :
       EmittedBy(notes[k], notes[k].track + 1, j,
                 TrackTempoAt(midi_file.tracks[notes[k].track + 1], j))

\* ---------------------------------------------------------------- C13
\* The keys a track has note events on.
KeysOf(msgs) ==
  { KeyOf(msgs[i]) : i \in { i \in 1..Len(msgs) : Opens(msgs[i]) \/ Closes(msgs[i]) } }

\* The intervals of the list that come from track t (1-based) and key.
NotesOn(t, key) ==
  SelectSeq(notes, LAMBDA n : n.track = t - 1 /\ << n.note, n.channel >> = key)

\* The closing events of track t on key that find a pending note-on.
EmittingOn(t, key) ==
  { j \in Emitting(midi_file.tracks[t]) : KeyOf(midi_file.tracks[t][j]) = key }

\* The note-on pending at the closing event j replaced an earlier note-on
\* that was still pending.
Replaced(msgs, j) ==
  /\ Opener(msgs, j) # 0
  /\ Opener(msgs, Opener(msgs, j)) # 0

\* Interval n is what closing event j emits: the ticks and the velocity of
\* the note-on pending at j, the latest one on the key.
FromLatestOn(n, t, j) ==
  /\ n.velocity = midi_file.tracks[t][Opener(midi_file.tracks[t], j)].velocity
  /\ \E tempo \in Tempos : EmittedBy(n, t, j, tempo)

\* C13: on a track where a note-on replaced a pending note-on of its key,
\* the key gets exactly one interval per closing event that finds a pending
\* note, and each one runs from the tick of the latest note-on before the
\* closing event with that note-on's velocity: the replaced note-on yields
\* no interval.
C13_LaterNoteOnReplaces ==
  \A t \in TrackIds : \A key \in KeysOf(midi_file.tracks[t]) :
    (\E j \in EmittingOn(t, key) : Replaced(midi_file.tracks[t], j)) =>
       LET ns == NotesOn(t, key)
       IN  /\ Len(ns) = Cardinality(EmittingOn(t, key))
           /\ \A k \in 1..Len(ns) : \E j \in EmittingOn(t, key) : FromLatestOn(ns[k], t, j)
           /\ \A j \in EmittingOn(t, key) : \E k \in 1..Len(ns) : FromLatestOn(ns[k], t, j)

\* A file was built in which a pending note-on was replaced by one at a
\* later tick with another velocity, and then closed.
C13_Witness ==
  /\ last.op = "load"
  /\ \E t \in TrackIds : \E j \in Emitting(midi_file.tracks[t]) :
       LET msgs == midi_file.tracks[t]
           i2 == Opener(msgs, j)
           i1 == Opener(msgs, i2)
       IN  /\ Replaced(msgs, j)
           /\ msgs[i1].velocity # msgs[i2].velocity
           /\ TickAt(msgs, i1) < TickAt(msgs, i2)
           /\ TickAt(msgs, i2) < TickAt(msgs, j)

\* ---------------------------------------------------------------- C14
\* C14: every interval belongs to a track and key of the file, and a track
\* and key get as many intervals as the track has closing events on the key
\* that find a note-on pending on that same track: none for a note-on that
\* is never closed on its track, none for a closing event whose note-on is
\* on an earlier track, none for a closing event without a pending note.
C14_OnlyClosedPairsEmit ==
  /\ \A k \in 1..Len(notes) :
       /\ notes[k].track + 1 \in TrackIds
       /\ << notes[k].note, notes[k].channel >> \in KeysOf(midi_file.tracks[notes[k].track + 1])
  /\ \A t \in TrackIds : \A key \in KeysOf(midi_file.tracks[t]) :
       Len(NotesOn(t, key)) = Cardinality(EmittingOn(t, key))

\* A note-on of the first track is never closed there, and the second track
\* has a closing event on the same key that finds nothing pending.
C14_Witness ==
  /\ last.op = "load"
  /\ Len(midi_file.tracks) = 2
  /\ \E i \in 1..Len(midi_file.tracks[1]) : \E j \in 1..Len(midi_file.tracks[2]) :
       LET m1 == midi_file.tracks[1]
           m2 == midi_file.tracks[2]
       IN  /\ Opens(m1[i])
           /\ \A c \in (i + 1)..Len(m1) : ~OnKey(m1[c], KeyOf(m1[i]))
           /\ Closes(m2[j]) /\ KeyOf(m2[j]) = KeyOf(m1[i])
           /\ Opener(m2, j) = 0

\* ---------------------------------------------------------------- C15
\* The events of track t on key are note-on, close, note-on, close, ...,
\* close: sequential pairs, none left open, no close without a note-on.
Alternating(t, key) ==
  LET msgs == midi_file.tracks[t]
      E == { i \in 1..Len(msgs) : OnKey(msgs[i], key) }
  IN  /\ E # {}
      /\ Closes(msgs[SetMax(E)])
      /\ \A i \in E :
           IF Opens(msgs[i])
           THEN PrevOnKey(msgs, i) = 0 \/ Closes(msgs[PrevOnKey(msgs, i)])
           ELSE PrevOnKey(msgs, i) # 0 /\ Opens(msgs[PrevOnKey(msgs, i)])

\* Exactly one interval per pair, its endpoints the conversions of the
\* pair's two absolute ticks (both at one tempo).
OnePerPair(t, key) ==
  LET ns == NotesOn(t, key)
  IN  /\ Len(ns) = Cardinality(EmittingOn(t, key))
      /\ \A k \in 1..Len(ns) : \E j \in EmittingOn(t, key) :
           \E tempo \in Tempos : EmittedBy(ns[k], t, j, tempo)
      /\ \A j \in EmittingOn(t, key) : \E k \in 1..Len(ns) :
           \E tempo \in Tempos : EmittedBy(ns[k], t, j, tempo)

\* No two intervals overlap in more than an endpoint.
PairwiseDisjoint(ns) ==
  \A a \in 1..Len(ns) : \A b \in (a + 1)..Len(ns) :
    ns[a].end_time <= ns[b].start_time \/ ns[b].end_time <= ns[a].start_time

\* No tempo change lies between the first and the last closing event of the
\* key on track t.
SteadyTempo(t, key) ==
  LET msgs == midi_file.tracks[t]
      C == EmittingOn(t, key)
  IN  \A i \in 1..Len(msgs) :
        msgs[i].type = "set_tempo" =>
          ~(\E j1 \in C : \E j2 \in C : j1 < i /\ i < j2)

\* C15 as stated: n sequential pairs on one key of one track give exactly n
\* intervals, one per pair, with the conversions of the pair's ticks as
\* endpoints, and the n ranges are pairwise disjoint.
C15_SequentialPairsDisjoint ==
  \A t \in TrackIds : \A key \in KeysOf(midi_file.tracks[t]) :
    Alternating(t, key) => OnePerPair(t, key) /\ PairwiseDisjoint(NotesOn(t, key))

\* C15, amended: n sequential pairs on one key of one track give exactly n
\* intervals, one per pair, with the conversions of the pair's ticks as
\* endpoints; the n ranges are pairwise disjoint when no tempo change lies
\* between the closing events of the pairs.
C15_SequentialPairs ==
  \A t \in TrackIds : \A key \in KeysOf(midi_file.tracks[t]) :
    Alternating(t, key) =>
      /\ OnePerPair(t, key)
      /\ SteadyTempo(t, key) => PairwiseDisjoint(NotesOn(t, key))

\* Two sequential pairs on one key were built, one closed by a note-off and
\* one by a note-on with velocity 0, with no tempo change in between.
C15_Witness ==
  /\ last.op = "load"
  /\ \E t \in TrackIds : \E key \in KeysOf(midi_file.tracks[t]) :
       LET msgs == midi_file.tracks[t]
       IN  /\ Alternating(t, key) /\ SteadyTempo(t, key)
           /\ Len(NotesOn(t, key)) >= 2
           /\ \E j \in EmittingOn(t, key) : msgs[j].type = "note_off"
           /\ \E j \in EmittingOn(t, key) : msgs[j].type = "note_on"

\* ---------------------------------------------------------------- C16
\* The file built has 480 ticks per beat and no tempo event, and the parser
\* converted it at the default tempo.
ConstantDefaultTempo ==
  /\ midi_file.ok /\ midi_file.ticks_per_beat = 480
  /\ \A t \in TrackIds : \A i \in 1..Len(midi_file.tracks[t]) :
       midi_file.tracks[t][i].type # "set_tempo"
  /\ parser_tempo = DEFAULT_TEMPO

\* Interval n spans ticks a..b of track t as [a*500/480, b*500/480] ms.
At500Per480(n, t, j) ==
  LET msgs == midi_file.tracks[t]
  IN  /\ n.track = t - 1
      /\ KeyOf(msgs[j]) = << n.note, n.channel >>
      /\ n.start_time * 480 = TickAt(msgs, Opener(msgs, j)) * 500
      /\ n.end_time * 480 = TickAt(msgs, j) * 500

\* C16: at constant tempo 500000 and 480 ticks per beat every interval is
\* [a*500/480, b*500/480] ms for the ticks a..b of its note, and a new parser
\* builds the two-note test file to pitch 60 at [0, 500] followed by pitch 64
\* at [500, 1000], with total duration 1000 ms.
C16_DefaultTempoConversion ==
  /\ [](ConstantDefaultTempo =>
          \A k \in 1..Len(notes) :
            \E j \in Emitting(midi_file.tracks[notes[k].track + 1]) :
              At500Per480(notes[k], notes[k].track + 1, j))
  /\ [][(midi_file = NoFile /\ midi_file' = TestFile) =>
          /\ Len(notes') = 2
          /\ notes'[1].note = 60 /\ notes'[1].start_time = 0 /\ notes'[1].end_time = 500
          /\ notes'[2].note = 64 /\ notes'[2].start_time = 500 /\ notes'[2].end_time = 1000
          /\ total_time' = 1000 /\ parser_total_time' = 1000]_vars

\* The two-note test file was built at the default tempo.
C16_Witness ==
  /\ last.op = "load" /\ midi_file = TestFile
  /\ ConstantDefaultTempo
  /\ Len(notes) = 2 /\ notes[2].end_time - notes[2].start_time = 500

\* ---------------------------------------------------------------- C17
\* C17: no interval of the list built ends before it starts.
C17_EndNotBeforeStart ==
  \A k \in 1..Len(notes) : notes[k].end_time >= notes[k].start_time

\* An interval was built from a note that has a tempo change between its
\* note-on and its closing event, and it has positive length.
C17_Witness ==
  /\ last.op = "load"
  /\ \E t \in TrackIds : \E j \in Emitting(midi_file.tracks[t]) :
       LET msgs == midi_file.tracks[t]
       IN  /\ \E i \in (Opener(msgs, j) + 1)..(j - 1) : msgs[i].type = "set_tempo"
           /\ TickAt(msgs, Opener(msgs, j)) > 0
           /\ \E k \in 1..Len(notes) :
                /\ \E tempo \in Tempos : EmittedBy(notes[k], t, j, tempo)
                /\ notes[k].end_time > notes[k].start_time

\* ---------------------------------------------------------------- C18
\* Position of element i of the emission list e in the merged list: behind
\* every element that starts earlier, and behind the elements that start at
\* the same time and were emitted before it.
Rank(e, i) ==
  1 + Cardinality({ j \in 1..Len(e) :
                      \/ e[j].start_time < e[i].start_time
                      \/ e[j].start_time = e[i].start_time /\ j < i })

\* Encounter order: track after track.
InTrackOrder(e) ==
  \A a \in 1..Len(e) : \A b \in (a + 1)..Len(e) : e[a].track <= e[b].track

\* C18: the list returned holds the intervals of all tracks in non-decreasing
\* start_time order, and intervals with equal start_time are in encounter
\* order: by track, and within a track in the order they were emitted.
C18_MergedInStartOrder ==
  /\ [](\A a \in 1..Len(notes) : \A b \in (a + 1)..Len(notes) :
          /\ notes[a].start_time <= notes[b].start_time
          /\ notes[a].start_time = notes[b].start_time => notes[a].track <= notes[b].track)
  /\ [][last'.op = "load" =>
          LET e == ParseTracks(midi_file'.tracks, 0, midi_file'.ticks_per_beat,
                               [notes |-> << >>, tempo |-> parser_tempo,
                                total_time |-> parser_total_time,
                                cumulative_ticks |-> 0, active |-> << >>]).notes
          IN  /\ InTrackOrder(e)
              /\ Len(notes') = Len(e)
              /\ \A i \in 1..Len(e) : notes'[Rank(e, i)] = e[i]]_vars

\* The merged list of the chord file: the note of track 1 was moved to the
\* front, and the two notes of track 0 that start together follow in the
\* order of their closing events.
C18_Witness ==
  /\ last.op = "load" /\ midi_file = ChordFile
  /\ Len(notes) = 3
  /\ notes[1].track = 1
  /\ notes[2].start_time = notes[3].start_time
  /\ notes[2].note = 59 /\ notes[3].note = 60

\* ---------------------------------------------------------------- C19
\* C19: every interval of the list built has the hand of the cascade:
\* channel 0 right, channel 1 left, any other channel left below pitch 60
\* and right from pitch 60 on.
C19_HandCascade ==
  \A k \in 1..Len(notes) :
    notes[k].hand =
      CASE notes[k].channel = 0 -> "right"
        [] notes[k].channel = 1 -> "left"
        [] OTHER -> IF notes[k].note < 60 THEN "left" ELSE "right"

\* An interval on channel 0 below pitch 60 was built: channel and pitch
\* disagree, and the channel decided.
C19_Witness ==
  /\ last.op = "load"
  /\ \E k \in 1..Len(notes) :
       notes[k].channel = 0 /\ notes[k].note < 60 /\ notes[k].hand = "right"

\* ---------------------------------------------------------------- C20
InList(n, ns) == \E m \in 1..Len(ns) : ns[m] = n

\* C20: the list a frame hands to the renderer holds exactly the intervals
\* with start_time <= current_time + 3000 and end_time >= current_time - 1000,
\* current_time being the position the frame has just computed.
C20_RenderSetIsWindow ==
  last.op = "frame" =>
    /\ \A m \in 1..Len(visible_notes) : InList(visible_notes[m], notes)
    /\ \A k \in 1..Len(notes) :
         InList(notes[k], visible_notes) <=>
           /\ notes[k].start_time <= current_time + 3000
           /\ notes[k].end_time >= current_time - 1000

\* A frame during playback of the long piece: one interval ended more than a
\* second ago and is left out, the other one is in the window.
C20_Witness ==
  /\ last.op = "frame" /\ playing
  /\ Len(notes) = 2 /\ Len(visible_notes) = 1
  /\ notes[1].end_time < current_time - 1000
  /\ visible_notes[1] = notes[2]

\* ------------------------------------------------ flags and open plays
\* The pitches of one file of Files are pairwise different, so the pitch set
\* of the audio backend tells, interval by interval, whether a play was
\* issued for it with no stop or stop_all after it.
FlaggedSounding == {i \in Intervals : note_playing[i] = "true"}
PlayedNotStopped == {i \in Intervals : notes[i].note \in sounding}

\* C21: in every reachable state the intervals flagged as sounding are
\* exactly those for which a play was issued with no later stop or stop_all;
\* so after stop(), end of piece or a load no interval is flagged.
C21_FlagsMatchOpenPlays == FlaggedSounding = PlayedNotStopped

\* ---------------------------------------------------------------- C25
\* The tempo changes of a track that come before message j.
TemposBefore(msgs, j) == { i \in 1..(j - 1) : msgs[i].type = "set_tempo" }

\* The tempo in force at the closing event j of a track: the latest tempo
\* change of the track before j, or, when the track has none, whatever the
\* parser held on entering the track.
InForceAt(msgs, j, tempo) ==
  IF TemposBefore(msgs, j) = {} THEN tempo \in Tempos
  ELSE tempo = msgs[SetMax(TemposBefore(msgs, j))].tempo

\* C25: the start tick and the end tick of every interval are both converted
\* with the one tempo in force at its closing event, start =
\* start_tick*T/(tpb*1000) and end = end_tick*T/(tpb*1000); a tempo change
\* between the note-on and the closing event moves the start time too.
C25_BothTicksAtClosingTempo ==
  \A k \in 1..Len(notes) :
    LET t == notes[k].track + 1
    IN  \E j \in Emitting(midi_file.tracks[t]) : \E T \in Tempos :
          /\ InForceAt(midi_file.tracks[t], j, T)
          /\ EmittedBy(notes[k], t, j, T)

\* A track closed one note at the default tempo and then changed the tempo
\* between the note-on (at a tick > 0) and the closing event of a second
\* note: the second start time is the start tick at the new tempo.
C25_Witness ==
  /\ last.op = "load" /\ Len(midi_file.tracks) = 1 /\ Len(notes) = 2
  /\ LET msgs == midi_file.tracks[1]
     IN  \E j1, j2 \in Emitting(msgs) :
           /\ j1 < Opener(msgs, j2)
           /\ TemposBefore(msgs, j1) = {}
           /\ EmittedBy(notes[1], 1, j1, DEFAULT_TEMPO)
           /\ TickAt(msgs, j1) > 0
           /\ TemposBefore(msgs, j2) \ TemposBefore(msgs, Opener(msgs, j2)) # {}
           /\ TickAt(msgs, Opener(msgs, j2)) > 0
           /\ EmittedBy(notes[2], 1, j2, 250000)

\* ---------------------------------------------------------------- C30
\* C30: for one tempo and one ticks_per_beat the conversion of ticks to
\* milliseconds never decreases: t1 <= t2 implies ticks_to_ms(t1) <=
\* ticks_to_ms(t2), over all the tick counts converted so far.
C30_ConversionMonotone ==
  \A a, b \in converted : a[1] <= b[1] => a[2] <= b[2]

\* Tick counts on both sides of a beat boundary were converted, and the
\* results differ.
C30_Witness ==
  \E a, b \in converted :
    /\ a[1] < midi_file.ticks_per_beat /\ midi_file.ticks_per_beat < b[1]
    /\ a[1] > 0 /\ a[2] < b[2]

\* ---------------------------------------------------------------- C26
\* The list ns with every hand set by pitch against the threshold t.
SplitAt(ns, t) ==
  [i \in 1..Len(ns) |->
     [note |-> ns[i].note, velocity |-> ns[i].velocity,
      start_time |-> ns[i].start_time, end_time |-> ns[i].end_time,
      channel |-> ns[i].channel, track |-> ns[i].track,
      hand |-> IF ns[i].note < t THEN "left" ELSE "right"]]

\* C26: split_hands_by_pitch(t) sets the hand of every interval to left when
\* its pitch is below t and to right otherwise and changes nothing else
\* (pitch, velocity, times, channel, track, order and number of intervals,
\* the playback state); applying it again with the same t changes nothing.
C26_SplitByPitch ==
  /\ [](last.op = "split_pitch" => notes = SplitAt(notes, last.split_note))
  /\ [][last'.op = "split_pitch" =>
          /\ notes' = SplitAt(notes, last'.split_note)
          /\ UNCHANGED << note_playing, current_time, total_time, playing,
                          sounding, midi_file >>]_vars

\* The hands of a three-note file were reassigned at one of its pitches: a
\* note of the left-hand channel went to the right, a note below the split
\* note to the left, and the note at the split note is on the right.
C26_Witness ==
  /\ last.op = "split_pitch" /\ Len(notes) = 3
  /\ \E i, j, k \in 1..Len(notes) :
       /\ notes[i].channel = 1 /\ notes[i].hand = "right"
       /\ notes[j].note < last.split_note /\ notes[j].hand = "left"
       /\ notes[k].note = last.split_note /\ notes[k].hand = "right"

\* ---------------------------------------------------------------- C24
\* Every play_note call fails on this backend.
Unavailable ==
  \/ ~sound_engine.initialized
  \/ sound_engine.muted
  \/ sound_engine.sounds = {}
  \/ sound_engine.raises

\* The position is inside the onset window of interval i.
InOnset(i, pos) ==
  notes[i].start_time <= pos /\ pos <= notes[i].start_time + 50

\* C24: on a backend whose play and stop calls fail, the calls return false
\* without raising: a frame made while playing still moves current_time to
\* the clock position, leaves is_playing alone, stays in the loop, and
\* handles every interval as it would on a working backend (one play call
\* and the flag set for each unflagged interval in its onset window, one
\* stop call and the flag cleared for each flagged interval that has ended,
\* nothing for the others), while no pitch starts to sound.
C24_FailingBackendIsIgnored ==
  [][ (Unavailable /\ last'.op = "frame" /\ playing /\ notes # << >>
         /\ Position < total_time) =>
        /\ pc' = "loop" /\ playing' /\ current_time' = Position
        /\ sounding' \subseteq sounding
        /\ \A i \in Intervals :
             IF note_playing[i] = "unset" /\ InOnset(i, Position)
             THEN /\ note_playing'[i] = "true"
                  /\ nPlay'[i] = nPlay[i] + 1 /\ nStop'[i] = nStop[i]
             ELSE IF note_playing[i] = "true" /\ notes[i].end_time <= Position
             THEN /\ note_playing'[i] = "false"
                  /\ nStop'[i] = nStop[i] + 1 /\ nPlay'[i] = nPlay[i]
             ELSE /\ note_playing'[i] = note_playing[i]
                  /\ nPlay'[i] = nPlay[i] /\ nStop'[i] = nStop[i]
        /\ Len(last'.calls) =
             Cardinality({ i \in Intervals : note_playing'[i] # note_playing[i] }) ]_vars

\* On a backend without samples one frame stopped the first interval of the
\* chord file and played the two that start together: three failed calls,
\* all three flags changed, nothing sounding, the clock at 60 ms.
C24_Witness ==
  /\ sound_engine.sounds = {} /\ sound_engine.initialized
  /\ last.op = "frame" /\ Len(last.calls) = 3
  /\ note_playing = << "false", "true", "true" >>
  /\ playing /\ current_time = 60 /\ sounding = {} /\ pc = "loop"

\* ---------------------------------------------------------------- C23
\* C23 as stated: an unexpected failure raised during one frame of the main
\* loop is caught at the loop level and the loop continues with the next
\* frame; the application keeps running.
C23_LoopSurvivesFailure ==
  [][last'.op = "raised" => (pc' = "loop" /\ running')]_vars

\* C23, amended: the failure is caught behind the loop and ends it; the
\* session is left as it was, cleanup silences and closes the audio backend,
\* the process exits with code 0, and no frame is processed after the
\* failure.
C23_FailureEndsLoop ==
  /\ [][last'.op = "raised" =>
          (pc' = "finally" /\ UNCHANGED << sessionVars, running >>)]_vars
  /\ [][pc = "finally" =>
          /\ last'.op = "cleanup" /\ pc' = "exited" /\ exit_code' = 0
          /\ sounding' = {} /\ ~sound_engine'.initialized]_vars
  /\ [][pc = "exited" => last'.op \notin {"frame", "start", "pause"}]_vars

\* A frame failed while a piece was playing and a note was sounding, and
\* the process has exited since.
C23_Witness ==
  /\ pc = "exited" /\ exit_code = 0 /\ running /\ last.op = "cleanup"
  /\ playing /\ current_time > 0 /\ sounding = {}
  /\ \E i \in Intervals : note_playing[i] = "true"

\* ---------------------------------------------------------------- C27
\* A path was given on the command line and nothing exists at it.
MissingPathGiven == args.given /\ ~args.exists

\* C27 as stated: the entry point exits with code 1 when a MIDI file path is
\* given and does not exist, without starting the application, and with
\* code 0 in every other case.
C27_ExitCodes ==
  /\ MissingPathGiven => (pc # "loop" /\ ~running)
  /\ pc = "exited" => exit_code = (IF MissingPathGiven THEN 1 ELSE 0)

\* C27, amended: a command line the argument parser rejects exits with
\* code 2 whatever path it names; an accepted one exits with code 1 when the
\* path it gives does not exist, without starting the application, and with
\* code 0 in every other case.
C27_ExitCodesWithUsageError ==
  /\ (~args.valid \/ MissingPathGiven) => (pc # "loop" /\ ~running)
  /\ pc = "exited" =>
       exit_code = (IF ~args.valid THEN 2 ELSE IF MissingPathGiven THEN 1 ELSE 0)

\* An accepted command line named a path that does not exist: the process
\* has exited with code 1 and nothing was loaded or started.
C27_Witness ==
  /\ pc = "exited" /\ exit_code = 1
  /\ args.valid /\ MissingPathGiven
  /\ last.op = "main" /\ ~running /\ notes = << >>

\* ---------------------------------------------------------------- C29
\* C29: after any sequence of speed-slider drags and left/right arrow key
\* presses, starting from the default 1.0, the speed multiplier is strictly
\* positive and within [0.1, 3.0].
C29_SpeedInRange ==
  /\ speed > 0
  /\ SpeedUnit <= 10 * speed
  /\ speed <= 3 * SpeedUnit

\* The left arrow key has brought the speed down to the lower limit 0.1.
C29_Witness ==
  /\ last.op = "key_down" /\ last.key = "left"
  /\ 10 * speed = SpeedUnit

\* ---------------------------------------------------------------- C28
\* C28: in every state (playing or paused, any set of held keys) a key-down
\* of R stops playback and resets current_time to 0, as the documented
\* control "R - Reiniciar" says.
C28_RKeyRestarts ==
  [][ (last'.op = "key_down" /\ last'.key = "r") =>
        (~playing' /\ current_time' = 0) ]_vars

\* ---------------------------------------------------------------- C22
\* The target of a seek brought into [0, total duration].
Clamped(target) == Max(0, Min(target, total_time))

\* C22: a seek to target sets the position to the target clamped to
\* [0, total duration] and re-anchors the reference instant, so that a
\* running clock computes that position at the instant of the seek; after it
\* exactly the intervals whose span contains the target are flagged and
\* sounding, and a stop was issued for every interval that was sounding and
\* no longer contains it.
C22_SeekResynchronises ==
  [][ last'.op = "progress_click" =>
        /\ current_time' = Clamped(last'.target)
        /\ playing' => Position' = Clamped(last'.target)
        /\ \A i \in Intervals :
             /\ note_playing'[i] = "true" <=>
                  (notes[i].start_time <= Clamped(last'.target)
                     /\ Clamped(last'.target) < notes[i].end_time)
             /\ (note_playing[i] = "true" /\ note_playing'[i] # "true") =>
                  \E k \in 1..Len(last'.calls) :
                     last'.calls[k] = Call("stop", notes[i].note) ]_vars

\* ---------------------------------------------------------------- C31
\* The list ns with every hand set from the channel lists L and R: left for
\* a channel in L, right for a channel in R and not in L, and by pitch
\* against 60 for a channel in neither.
SplitByLists(ns, L, R) ==
  [i \in 1..Len(ns) |->
     [note |-> ns[i].note, velocity |-> ns[i].velocity,
      start_time |-> ns[i].start_time, end_time |-> ns[i].end_time,
      channel |-> ns[i].channel, track |-> ns[i].track,
      hand |-> CASE ns[i].channel \in L -> "left"
                 [] ns[i].channel \in R \ L -> "right"
                 [] OTHER -> IF ns[i].note < 60 THEN "left" ELSE "right"]]

\* C31: split_hands_by_channel(left, right) gives every interval whose
\* channel is in left the hand left, every interval whose channel is in
\* right and not in left the hand right, and every other interval left when
\* its pitch is below 60 and right otherwise; no other field, and neither
\* the order nor the number of intervals, nor the playback state, changes.
C31_SplitByChannel ==
  [][last'.op = "split_channel" =>
       /\ notes' = SplitByLists(notes, last'.left_channels, last'.right_channels)
       /\ UNCHANGED << note_playing, current_time, total_time, playing,
                       sounding, midi_file >>]_vars

\* The hands of the three-note file were reassigned with channel 0 in both
\* lists and channel 1 in the right one only: the note of channel 0 is on
\* the left, the note of channel 1 on the right, and the note of channel 2,
\* in neither list and below pitch 60, on the left.
C31_Witness ==
  /\ last.op = "split_channel" /\ Len(notes) = 3
  /\ 0 \in last.left_channels /\ 0 \in last.right_channels
  /\ 1 \in last.right_channels \ last.left_channels
  /\ 2 \notin last.left_channels \cup last.right_channels
  /\ \E i, j, k \in 1..Len(notes) :
       /\ notes[i].channel = 0 /\ notes[i].hand = "left"
       /\ notes[j].channel = 1 /\ notes[j].hand = "right"
       /\ notes[k].channel = 2 /\ notes[k].note < 60 /\ notes[k].hand = "left"

\* ---------------------------------------------------------------- C32
\* A frame that runs the trigger resolver at the clock position.
TriggerFrame == FrameStep /\ ~UpdateSkipped /\ ~AtEnd(Position)

\* C32: in runs that are started from 0 and never paused, every interval
\* whose onset window holds the position of a frame is played by that frame,
\* unless the previous frame of the same run already was inside the window;
\* this holds for the first run after a load and for every run started
\* after a stop or the end of the piece alike.
C32_EveryRunPlaysOnsets ==
  [][TriggerFrame =>
       \A i \in Intervals :
         InOnset(i, Position) =>
           \/ nPlay'[i] = nPlay[i] + 1
           \/ last.op = "frame" /\ InOnset(i, current_time)]_vars

\* ---------------------------------------------------------------- C33
\* C33: between any two handlers of the main loop the control panel's
\* playing flag, which is also what the Play/Pause button shows, agrees with
\* the application's is_playing.
C33_PanelAgreesWithApp == ui_playing = playing

\* ---------------------------------------------------------------- C34
\* C34: a frame that runs the trigger resolver before the end_time of an
\* interval that has been triggered and is sounding leaves that interval's
\* pitch sounding, also when another interval of the same pitch ends in this
\* frame.
C34_NoStopBeforeOwnEnd ==
  [][TriggerFrame =>
       \A i \in Intervals :
         ( /\ note_playing[i] = "true"
           /\ notes[i].note \in sounding
           /\ Position < notes[i].end_time )
         => notes[i].note \in sounding']_vars

\* ---------------------------------------------------------------- C35
\* C35: a change of the speed made while playback is paused or stopped
\* leaves current_time and is_playing alone, and the resume that follows
\* anchors the reference instant under the new speed: the wall-clock time
\* since the reference instant, times the new speed, is the frozen position,
\* so the position is not scaled by the ratio of the speeds.
C35_FrozenSpeedChange ==
  [][ /\ (~playing /\ speed' # speed) =>
            (current_time' = current_time /\ ~playing')
      /\ (~playing /\ playing') =>
            /\ current_time' = current_time
            /\ (now' - start_time') * speed' = current_time * SpeedUnit ]_vars

\* Playback was paused at 20 ms under speed 1.0, the speed was set to 2.0,
\* and Play was clicked: the reference instant lies 10 ms back.
C35_Witness ==
  /\ last.op = "start" /\ playing
  /\ speed = 2 * SpeedUnit /\ nSpeedChanges = 1
  /\ current_time = 20 /\ start_time = now - 10

\* ---------------------------------------------------------------- C36
\* The computer keys that are down and mapped to pitch p.
HeldFor(hs, p) == { key \in hs : GetNoteFromKey(key) = p }

\* C36: at every moment a pitch is in pressed_keys exactly when at least one
\* computer key mapped to it is down, and a key-up issues stop_note for a
\* pitch only when no key mapped to that pitch stays down; the pitches 60
\* and 62 are mapped from two keys each.
C36_PressedWhileAnyKeyHeld ==
  /\ [](\A p \in PianoRange : p \in pressed_keys <=> HeldFor(held, p) # {})
  /\ [][last'.op = "key_up" =>
          \A p \in PianoRange :
            HasCall(last'.calls, "stop") /\ last'.calls[1].note = p
              => HeldFor(held', p) = {}]_vars

\* ---------------------------------------------------------------- C37
\* The fraction f = << p, q >> is min(1, c / t), or 0 when t is 0.
IsProgressOf(f, c, t) ==
  IF t = 0 \/ c = 0 THEN f[1] = 0
  ELSE IF c >= t THEN f[1] = f[2]
  ELSE f[1] * t = c * f[2]

\* C37: in the frame drawn at the end of every iteration of the main loop
\* the progress of the progress bar is min(1, current_time / total_time),
\* or 0 when total_time is 0, for that frame's current_time; so it is 0 in
\* the frames drawn after a stop, the end of the piece or a load.
C37_ProgressFollowsPosition ==
  last.op = "frame" => IsProgressOf(progress, current_time, total_time)

\* ---------------------------------------------------------------- C38
\* C38: in the frame drawn at the end of an iteration of the main loop, at
\* any speed, a key of the keyboard is highlighted exactly when the frame's
\* current_time, the position the audio was triggered at, lies within
\* [start_time, end_time] of a visible interval of the key's pitch.
C38_HighlightAtClockPosition ==
  last.op = "frame" =>
    \A k \in KeyboardKeys :
      k \in Highlighted(visible_notes, current_time, speed)
        <=> \E i \in 1..Len(visible_notes) :
              /\ visible_notes[i].note = k
              /\ visible_notes[i].start_time <= current_time
              /\ current_time <= visible_notes[i].end_time

====
